---- MODULE Spec2Model ----
(***************************************************************************)
(* The link crawler of The-Gathering-Web-Scraper (LinkCrawler in           *)
(* link-crawler.js) as a state machine: the constructor, the resolver      *)
(* (#handleRelativeLinks), the normalizer (#normalizeLinks), the sort and  *)
(* dedup step (#sortLinks) and the recursive crawl with its race between   *)
(* the extraction and a 3000 ms timer.                                     *)
(*                                                                         *)
(* URLs are strings; the string operators below work on characters, so     *)
(* startsWith, slice, the template concatenation and the platform's URL    *)
(* parser are modelled by what they do to the text.                        *)
(***************************************************************************)
EXTENDS Integers, Sequences, FiniteSets, TLC

(***************************************************************************)
(* Strings (JavaScript String operations used by the crawler).             *)
(***************************************************************************)

\* The ASCII characters the model uses, in code order; only the order matters
\* to sort.
Ascii == " #%+-./0123456789:?ABCDEFGHIJKLMNOPQRSTUVWXYZ_abcdefghijklmnopqrstuvwxyz"

Uppers == "ABCDEFGHIJKLMNOPQRSTUVWXYZ"
Lowers == "abcdefghijklmnopqrstuvwxyz"
Digits == "0123456789"

\* s[i - 1] of JavaScript: the i-th character (1-based) as a one-character string.
Ch(s, i) == SubSeq(s, i, i)

\* The rank of a one-character string in code-unit order.
Code(c) == CHOOSE i \in 1..Len(Ascii) : Ch(Ascii, i) = c

\* String.prototype.startsWith
StartsWith(s, p) == Len(s) >= Len(p) /\ SubSeq(s, 1, Len(p)) = p

\* String.prototype.slice(n), n >= 0
SliceFrom(s, n) == SubSeq(s, n + 1, Len(s))

\* s.slice(-1): the last character, or "" for the empty string
LastChar(s) == IF Len(s) = 0 THEN "" ELSE Ch(s, Len(s))

EndsWithSlash(s) == LastChar(s) = "/"

\* The index of the first occurrence of character c in s at or after i, or
\* Len(s) + 1 when there is none.
RECURSIVE IndexFrom(_, _, _)
IndexFrom(s, c, i) ==
  IF i > Len(s) THEN Len(s) + 1
  ELSE IF Ch(s, i) = c THEN i
  ELSE IndexFrom(s, c, i + 1)

\* The index of the first character of s at or after i that is in the set cs.
RECURSIVE IndexOfAny(_, _, _)
IndexOfAny(s, cs, i) ==
  IF i > Len(s) THEN Len(s) + 1
  ELSE IF Ch(s, i) \in cs THEN i
  ELSE IndexOfAny(s, cs, i + 1)

Contains(s, c) == IndexFrom(s, c, 1) <= Len(s)

\* s.indexOf(pat) + 1 searched from i, or Len(s) + 1 when pat does not occur.
RECURSIVE FindFrom(_, _, _)
FindFrom(s, pat, i) ==
  IF i + Len(pat) - 1 > Len(s) THEN Len(s) + 1
  ELSE IF SubSeq(s, i, i + Len(pat) - 1) = pat THEN i
  ELSE FindFrom(s, pat, i + 1)

IsUpper(c) == \E i \in 1..Len(Uppers) : Ch(Uppers, i) = c
IsLowerAlpha(c) == \E i \in 1..Len(Lowers) : Ch(Lowers, i) = c
IsAlpha(c) == IsUpper(c) \/ IsLowerAlpha(c)
IsDigit(c) == \E i \in 1..Len(Digits) : Ch(Digits, i) = c

\* ASCII lowercase of one character, and of a string.
LowerCh(c) ==
  IF IsUpper(c) THEN Ch(Lowers, CHOOSE i \in 1..Len(Uppers) : Ch(Uppers, i) = c) ELSE c

RECURSIVE Lower(_)
Lower(s) == IF Len(s) = 0 THEN "" ELSE LowerCh(Head(s)) \o Lower(Tail(s))

\* The default comparison of Array.prototype.sort: a < b by code units.
RECURSIVE StrLess(_, _)
StrLess(a, b) ==
  IF Len(b) = 0 THEN FALSE
  ELSE IF Len(a) = 0 THEN TRUE
  ELSE IF Head(a) = Head(b) THEN StrLess(Tail(a), Tail(b))
  ELSE Code(Head(a)) < Code(Head(b))

(***************************************************************************)
(* new URL(link).href: the platform's URL parser and serializer (WHATWG     *)
(* URL), for inputs over the characters of Ascii that carry no port digits, *)
(* no credentials, no percent sign and no file: scheme.  The result is a    *)
(* record: ok = FALSE stands for the TypeError the constructor throws.      *)
(***************************************************************************)

\* Leading and trailing spaces are stripped before parsing.
RECURSIVE TrimLeft(_)
TrimLeft(s) == IF Len(s) > 0 /\ Head(s) = " " THEN TrimLeft(Tail(s)) ELSE s

RECURSIVE TrimRight(_)
TrimRight(s) ==
  IF Len(s) > 0 /\ LastChar(s) = " " THEN TrimRight(SubSeq(s, 1, Len(s) - 1)) ELSE s

Trim(s) == TrimRight(TrimLeft(s))

\* A scheme is an ASCII letter followed by letters, digits, "+", "-" or ".".
IsSchemeChar(c) == IsAlpha(c) \/ IsDigit(c) \/ c \in {"+", "-", "."}

IsScheme(t) ==
  /\ Len(t) > 0
  /\ IsAlpha(Head(t))
  /\ \A i \in 1..Len(t) : IsSchemeChar(Ch(t, i))

SpecialSchemes == {"http", "https", "ftp", "ws", "wss"}

\* Percent-encoding of the path, query and fragment: of the characters of
\* Ascii only the space is encoded.
RECURSIVE Encode(_)
Encode(s) ==
  IF Len(s) = 0 THEN ""
  ELSE (IF Head(s) = " " THEN "%20" ELSE Head(s)) \o Encode(Tail(s))

RECURSIVE SkipSlashes(_)
SkipSlashes(s) == IF Len(s) > 0 /\ Head(s) = "/" THEN SkipSlashes(Tail(s)) ELSE s

\* s.split(c) for a one-character separator, as a sequence of pieces.
RECURSIVE SplitOn(_, _)
SplitOn(s, c) ==
  LET k == IndexFrom(s, c, 1)
  IN  IF k > Len(s) THEN <<s>>
      ELSE <<SubSeq(s, 1, k - 1)>> \o SplitOn(SliceFrom(s, k), c)

SplitSlash(s) == SplitOn(s, "/")

\* The path state of the parser: "." and ".." segments are resolved, a dot
\* segment in last position leaves an empty last segment.
RECURSIVE PathSegments(_, _)
PathSegments(segs, acc) ==
  IF Len(segs) = 0 THEN acc
  ELSE LET seg == Head(segs)
           last == Len(segs) = 1
           popped == IF Len(acc) > 0 THEN SubSeq(acc, 1, Len(acc) - 1) ELSE acc
       IN  IF seg = ".."
             THEN PathSegments(Tail(segs), IF last THEN Append(popped, "") ELSE popped)
           ELSE IF seg = "."
             THEN PathSegments(Tail(segs), IF last THEN Append(acc, "") ELSE acc)
           ELSE PathSegments(Tail(segs), Append(acc, Encode(seg)))

\* The path of a hierarchical URL from the text after the authority: the text
\* is empty or starts with "/".
ParsePath(raw) == IF Len(raw) = 0 THEN <<>> ELSE PathSegments(SplitSlash(Tail(raw)), <<>>)

RECURSIVE SerializePath(_)
SerializePath(path) ==
  IF Len(path) = 0 THEN "" ELSE "/" \o Head(path) \o SerializePath(Tail(path))

\* A port is a possibly empty run of digits.
IsPort(t) == \A i \in 1..Len(t) : IsDigit(Ch(t, i))

\* Forbidden host code points among the characters of Ascii: a domain (special
\* scheme) also forbids "%".
ValidHost(h, special) ==
  /\ special => Len(h) > 0
  /\ \A i \in 1..Len(h) : Ch(h, i) \notin (IF special THEN {" ", "%"} ELSE {" "})

Failure == [ok |-> FALSE, href |-> ""]

\* scheme ":" already split off; rest holds authority and path, query and
\* fragment are already cut.  An authority is "host" or "host:port".
ParseAuthority(scheme, special, auth, pathRaw) ==
  LET c == IndexFrom(auth, ":", 1)
      host == SubSeq(auth, 1, c - 1)
      port == SliceFrom(auth, c)
      path == IF special /\ Len(pathRaw) = 0 THEN <<"">> ELSE ParsePath(pathRaw)
  IN  IF ~ValidHost(host, special) \/ ~IsPort(port) THEN Failure
      ELSE [ok |-> TRUE,
            href |-> scheme \o "://" \o (IF special THEN Lower(host) ELSE host)
                     \o (IF Len(port) > 0 THEN ":" \o port ELSE "")
                     \o SerializePath(path)]

ParseHierarchy(scheme, main) ==
  IF scheme \in SpecialSchemes
    THEN LET a == SkipSlashes(main)
             e == IndexFrom(a, "/", 1)
         IN  ParseAuthority(scheme, TRUE, SubSeq(a, 1, e - 1), SliceFrom(a, e - 1))
  ELSE IF StartsWith(main, "//")
    THEN LET a == SliceFrom(main, 2)
             e == IndexFrom(a, "/", 1)
         IN  ParseAuthority(scheme, FALSE, SubSeq(a, 1, e - 1), SliceFrom(a, e - 1))
  ELSE IF StartsWith(main, "/")
    THEN LET path == ParsePath(main)
         IN  [ok |-> TRUE,
              href |-> scheme \o ":"
                       \o (IF Len(path) > 1 /\ path[1] = "" THEN "/." ELSE "")
                       \o SerializePath(path)]
  ELSE [ok |-> TRUE, href |-> scheme \o ":" \o main]   \* opaque path

\* new URL(link): ok and the href, or the failure.
ParseURL(link) ==
  LET s == Trim(link)
      k == IndexOfAny(s, {":", "/", "?", "#"}, 1)
      scheme == Lower(SubSeq(s, 1, k - 1))
      rest == SliceFrom(s, k)
      f == IndexFrom(rest, "#", 1)
      pre == SubSeq(rest, 1, f - 1)
      q == IndexFrom(pre, "?", 1)
      main == SubSeq(pre, 1, q - 1)
      tail == (IF q <= Len(pre) THEN "?" \o Encode(SliceFrom(pre, q)) ELSE "")
              \o (IF f <= Len(rest) THEN "#" \o Encode(SliceFrom(rest, f)) ELSE "")
      h == ParseHierarchy(scheme, main)
  IN  IF k > Len(s) \/ Ch(s, k) # ":" \/ ~IsScheme(scheme) THEN Failure
      ELSE IF ~h.ok THEN Failure
      ELSE [ok |-> TRUE, href |-> h.href \o tail]

(***************************************************************************)
(* LinkCrawler: the normalizer, the resolver, the sort and dedup step.      *)
(* A result is a record [ok, val]; ok = FALSE is a thrown exception.        *)
(***************************************************************************)

Thrown == [ok |-> FALSE, val |-> "Invalid URL"]

\* A normalizer that appends the slash without looking at the last character.
AlwaysAppendSlash(link) ==
  LET urlObject == ParseURL(link)
  IN  IF ~urlObject.ok THEN Thrown ELSE [ok |-> TRUE, val |-> urlObject.href \o "/"]

\* A normalizer that returns the href as the parser serialized it.
HrefOnly(urlObject) ==
  IF ~urlObject.ok THEN Thrown ELSE [ok |-> TRUE, val |-> urlObject.href]

\* The lines of #normalizeLinks after new URL(link): hostPath = urlObject.href
\* gets a "/" appended unless it ends with one.
WithTrailingSlash(urlObject) ==
  IF ~urlObject.ok THEN Thrown
  ELSE IF Len(urlObject.href) > 0 /\ LastChar(urlObject.href) # "/"
    THEN [ok |-> TRUE, val |-> urlObject.href \o "/"]
  ELSE [ok |-> TRUE, val |-> urlObject.href]

\* #normalizeLinks(link)
NormalizeLinks(link) == WithTrailingSlash(ParseURL(link))

\* A resolver that cuts one character off a "./" link, as it does for "/".
ResolveCuttingOne(link, baseUrl) ==
  IF StartsWith(link, "/") \/ StartsWith(link, "./")
    THEN [ok |-> TRUE, val |-> baseUrl \o SliceFrom(link, 1)]
  ELSE NormalizeLinks(link)

\* A resolver that normalizes the links it builds by concatenation as well.
ResolveNormalizing(link, baseUrl) ==
  IF StartsWith(link, "/") THEN NormalizeLinks(baseUrl \o SliceFrom(link, 1))
  ELSE IF StartsWith(link, "./") THEN NormalizeLinks(baseUrl \o SliceFrom(link, 2))
  ELSE NormalizeLinks(link)

\* The body of the forEach callback of #handleRelativeLinks for one link.
ResolveLink(link, baseUrl) ==
  IF StartsWith(link, "/")
    THEN [ok |-> TRUE, val |-> baseUrl \o SliceFrom(link, 1)]
  ELSE IF StartsWith(link, "./")
    THEN [ok |-> TRUE, val |-> baseUrl \o SliceFrom(link, 2)]
  ELSE NormalizeLinks(link)

\* Array.prototype.sort() with the default comparison, by insertion.
RECURSIVE InsertSorted(_, _)
InsertSorted(x, sorted) ==
  IF Len(sorted) = 0 THEN <<x>>
  ELSE IF StrLess(x, Head(sorted)) THEN <<x>> \o sorted
  ELSE <<Head(sorted)>> \o InsertSorted(x, Tail(sorted))

RECURSIVE SortStrings(_)
SortStrings(seq) ==
  IF Len(seq) = 0 THEN <<>> ELSE InsertSorted(Head(seq), SortStrings(Tail(seq)))

Range(seq) == {seq[i] : i \in 1..Len(seq)}

\* [...new Set(seq)]: the first occurrence of each element, in order.
RECURSIVE Distinct(_, _)
Distinct(seq, acc) ==
  IF Len(seq) = 0 THEN acc
  ELSE Distinct(Tail(seq), IF Head(seq) \in Range(acc) THEN acc ELSE Append(acc, Head(seq)))

\* A #sortLinks that sorts and keeps the duplicates.
SortOnly(updatedLinks) == SortStrings(updatedLinks)

\* #sortLinks(updatedLinks)
SortLinks(updatedLinks) == Distinct(SortStrings(updatedLinks), <<>>)

\* A forEach that leaves out a link the normalizer rejects.
PushSkippingInvalid(r, rest) ==
  IF ~rest.ok THEN Thrown
  ELSE IF ~r.ok THEN rest
  ELSE [ok |-> TRUE, val |-> <<r.val>> \o rest.val]

\* updatedLinks.push(...) of one resolved link r before the links resolved
\* after it; an exception of either is the exception of the forEach.
Push(r, rest) ==
  IF ~r.ok THEN Thrown
  ELSE IF ~rest.ok THEN Thrown
  ELSE [ok |-> TRUE, val |-> <<r.val>> \o rest.val]

\* The forEach of #handleRelativeLinks: the resolved links in document order,
\* or the exception of the first link the normalizer rejects.
RECURSIVE ResolveAll(_, _)
ResolveAll(links, baseUrl) ==
  IF Len(links) = 0 THEN [ok |-> TRUE, val |-> <<>>]
  ELSE Push(ResolveLink(Head(links), baseUrl), ResolveAll(Tail(links), baseUrl))

\* return this.#sortLinks(updatedLinks), unless the forEach threw.
ReturnSorted(updatedLinks) ==
  IF ~updatedLinks.ok THEN Thrown
  ELSE [ok |-> TRUE, val |-> SortLinks(updatedLinks.val)]

\* An extraction that throws when the page has no anchor element.
ThrowOnNoAnchors(links, baseUrl) ==
  IF Len(links) = 0 THEN Thrown ELSE ReturnSorted(ResolveAll(links, baseUrl))

\* #handleRelativeLinks(links, baseUrl)
HandleRelativeLinks(links, baseUrl) == ReturnSorted(ResolveAll(links, baseUrl))

(***************************************************************************)
(* The constructor.  validator.isURL(str) is the npm validator package with *)
(* its default options: protocols http, https and ftp, the protocol not     *)
(* required, a top-level domain required, no protocol-relative URL.         *)
(***************************************************************************)

\* isFQDN(host): at least two labels, an alphabetic top-level domain of two
\* letters or more, labels of letters, digits and inner hyphens, 63 at most.
IsLabel(t) ==
  /\ Len(t) > 0 /\ Len(t) <= 63
  /\ \A i \in 1..Len(t) : IsAlpha(Ch(t, i)) \/ IsDigit(Ch(t, i)) \/ Ch(t, i) = "-"
  /\ Head(t) # "-" /\ LastChar(t) # "-"

IsFQDN(host) ==
  LET parts == SplitOn(host, ".")
      tld == parts[Len(parts)]
  IN  /\ Len(parts) >= 2
      /\ Len(tld) >= 2
      /\ \A i \in 1..Len(tld) : IsAlpha(Ch(tld, i))
      /\ \A n \in 1..Len(parts) : IsLabel(parts[n])

\* validator.isURL(url)
IsURL(url) ==
  LET noFrag == SubSeq(url, 1, IndexFrom(url, "#", 1) - 1)
      noQuery == SubSeq(noFrag, 1, IndexFrom(noFrag, "?", 1) - 1)
      p == FindFrom(noQuery, "://", 1)
      hasProtocol == p <= Len(noQuery)
      protocol == Lower(SubSeq(noQuery, 1, p - 1))
      rest == IF hasProtocol THEN SliceFrom(noQuery, p + 2) ELSE noQuery
      hostPort == SubSeq(rest, 1, IndexFrom(rest, "/", 1) - 1)
      c == IndexFrom(hostPort, ":", 1)
      host == SubSeq(hostPort, 1, c - 1)
      port == SliceFrom(hostPort, c)
  IN  /\ Len(url) > 0
      /\ ~Contains(url, " ")
      /\ ~StartsWith(url, "mailto:")
      /\ hasProtocol => protocol \in {"http", "https", "ftp"}
      /\ ~hasProtocol => ~StartsWith(noQuery, "//")
      /\ Len(rest) > 0
      /\ IsPort(port)
      /\ IsFQDN(host)

\* A constructor that stores the URL as given.
NewWithoutSlash(baseUrl) ==
  IF ~IsURL(baseUrl) THEN [threw |-> TRUE, baseUrl |-> baseUrl]
  ELSE [threw |-> FALSE, baseUrl |-> baseUrl]

\* new LinkCrawler(baseUrl): threw, or the baseUrl the object stores.
NewLinkCrawler(baseUrl) ==
  IF ~IsURL(baseUrl) THEN [threw |-> TRUE, baseUrl |-> baseUrl]
  ELSE IF LastChar(baseUrl) # "/" THEN [threw |-> FALSE, baseUrl |-> baseUrl \o "/"]
  ELSE [threw |-> FALSE, baseUrl |-> baseUrl]

(***************************************************************************)
(* The site the crawler is pointed at.                                      *)
(***************************************************************************)

\* Bounds of the model.
MaxLinks == 2      \* hrefs per page of Webs
MaxFaults == 1     \* rejections injected per traversal on pages that exist

\* The href values the pages of the site may carry, in document order.
DocOrder == <<"https://x.com/about", "about", "https://x.com/", "/about">>

\* The URLs the server answers with a page, as fetch requests them.
Pages == {"https://x.com/", "https://x.com/about", "https://x.com/about/"}

\* The seeds crawl is called with: the scrapers pass their own baseUrl as
\* typed, with or without the trailing slash.
Seeds == {"https://x.com/", "https://x.com"}

\* The anchors of one page: at most MaxLinks of DocOrder, in document order.
RECURSIVE Pick(_, _)
Pick(seq, S) ==
  IF Len(seq) = 0 THEN <<>>
  ELSE (IF Head(seq) \in S THEN <<Head(seq)>> ELSE <<>>) \o Pick(Tail(seq), S)

LinkLists ==
  {Pick(DocOrder, S) : S \in {T \in SUBSET Range(DocOrder) : Cardinality(T) <= MaxLinks}}

Webs == [Pages -> LinkLists]

\* Sites whose root page repeats anchors, as a navigation bar and a footer do.
RepeatLists ==
  {<<"/about", "/about">>,
   <<"https://x.com/about", "/about", "https://x.com/about">>,
   <<"https://x.com/", "https://x.com/about", "https://x.com/", "/about", "/about">>}

RepeatWebs ==
  {[u \in Pages |-> IF u = "https://x.com/" THEN l ELSE <<>>] : l \in RepeatLists}

\* A URL without its fragment.
WithoutFragment(href) == SubSeq(href, 1, IndexFrom(href, "#", 1) - 1)

\* The URL fetch(url) requests: the parsed URL without its fragment.
ServerKey(url) == WithoutFragment(ParseURL(url).href)

\* Every link a traversal of the site can come to crawl: the seeds, and what
\* the resolver makes of an href on a page requested under a known link.
RECURSIVE UrlClosure(_)
Discovered(U) ==
  {r.val : r \in {x \in {ResolveLink(p[1], p[2]) :
                            p \in Range(DocOrder) \X {v \in U : ServerKey(v) \in Pages}} :
                   x.ok}}

UntilStable(U, n) == IF n = U THEN U ELSE UrlClosure(n)

UrlClosure(U) == UntilStable(U, U \cup Discovered(U))

KnownUrls == UrlClosure(Seeds)

\* fetch(link): the URL requested for each link, tabulated once.
RequestOf == [u \in KnownUrls |-> ServerKey(u)]

(***************************************************************************)
(* State.                                                                   *)
(***************************************************************************)
VARIABLES
  web,          \* the site: page URL -> href values of its anchors
  status,       \* of the top-level crawl: "idle", "running", "returned", "rejected"
  seed,         \* the link the top-level crawl was called with
  visitedUrls,  \* the Set of crawl, as the sequence of its insertion order
  stack,        \* the crawl invocations in progress, innermost last
  fetches,      \* every extraction started: [link, baseUrl, request, outcome, batch]
  timers,       \* the armed setTimeout timers, oldest first (race ids)
  abandoned,    \* extractions that lost their race and have not settled
  faults,       \* rejections injected so far on pages that exist
  result,       \* what the top-level crawl returned
  returns,      \* what each invocation that returned has returned: [link, value]
  given,        \* the third argument of the top-level call and this.baseUrl
  call          \* the last call of a pure function or of the constructor

vars == <<web, status, seed, visitedUrls, stack, fetches, timers, abandoned,
          faults, result, returns, given, call>>

crawlVars == <<web, status, seed, visitedUrls, stack, fetches, timers, abandoned,
               faults, result, returns, given>>

NoCall == [op |-> "none"]

NoArgs == [baseUrl |-> "undefined", crawler |-> ""]

Init ==
  /\ web \in Webs \cup RepeatWebs
  /\ status = "idle"
  /\ seed = ""
  /\ visitedUrls = <<>>
  /\ stack = <<>>
  /\ fetches = <<>>
  /\ timers = <<>>
  /\ abandoned = {}
  /\ faults = 0
  /\ result = <<>>
  /\ returns = <<>>
  /\ given = NoArgs
  /\ call = NoCall

(***************************************************************************)
(* crawl(link, visitedUrls, baseUrl).  A frame is one invocation:           *)
(*   pc "while"  at the test of the while loop                              *)
(*   pc "await"  suspended on Promise.race (its race is fetches[race])      *)
(*   pc "for"    in the for-of loop, extractedURLs[i] is the next link      *)
(* The event loop runs a timer or a fetch completion only when the running  *)
(* code has suspended, so these fire only while the innermost invocation    *)
(* awaits its race, or after the traversal has ended.                       *)
(***************************************************************************)

Top == stack[Len(stack)]

SetTop(f) == [stack EXCEPT ![Len(stack)] = f]

\* A crawler whose membership test never finds a link.
HasNever(link) == FALSE

\* visitedUrls.has(link)
Has(link) == link \in Range(visitedUrls)

Suspended == status = "running" /\ Len(stack) > 0 /\ Top.pc = "await"

Quiescent == Suspended \/ status \in {"returned", "rejected"}

\* A crawl whose default visited set is the one of the other call.
CrawlSharing(s) ==
  /\ status = "idle"
  /\ status' = "running"
  /\ seed' = s
  /\ visitedUrls' = call.visitedUrls
  /\ given' = [baseUrl |-> "undefined", crawler |-> NewLinkCrawler(s).baseUrl]
  /\ stack' = <<[link |-> s, baseUrl |-> "undefined", pc |-> "while",
                 extractedURLs |-> <<>>, i |-> 0, race |-> 0]>>
  /\ UNCHANGED <<web, fetches, timers, abandoned, faults, result, returns, call>>

\* The scrapers' call, new LinkCrawler(s).crawl(s): no visited set and no
\* baseUrl are passed; the default visitedUrls = new Set() is evaluated at
\* the call.
Crawl(s) ==
  /\ status = "idle"
  /\ status' = "running"
  /\ seed' = s
  /\ visitedUrls' = <<>>
  /\ given' = [baseUrl |-> "undefined", crawler |-> NewLinkCrawler(s).baseUrl]
  /\ stack' = <<[link |-> s, baseUrl |-> "undefined", pc |-> "while",
                 extractedURLs |-> <<>>, i |-> 0, race |-> 0]>>
  /\ UNCHANGED <<web, fetches, timers, abandoned, faults, result, returns, call>>

\* crawl(s, undefined, b) on a crawler constructed with c: the default
\* visited set again, and baseUrl b.
CrawlWith(s, b, c) ==
  /\ status = "idle"
  /\ ~NewLinkCrawler(c).threw
  /\ status' = "running"
  /\ seed' = s
  /\ visitedUrls' = <<>>
  /\ given' = [baseUrl |-> b, crawler |-> NewLinkCrawler(c).baseUrl]
  /\ stack' = <<[link |-> s, baseUrl |-> b, pc |-> "while",
                 extractedURLs |-> <<>>, i |-> 0, race |-> 0]>>
  /\ UNCHANGED <<web, fetches, timers, abandoned, faults, result, returns, call>>

\* A crawler that forgets to record the link.
AddNothing(link) == visitedUrls

\* visitedUrls.add(link)
AddVisited(link) == IF Has(link) THEN visitedUrls ELSE Append(visitedUrls, link)

\* A loop that resolves against the baseUrl of the crawler, this.baseUrl.
EnterLoopWithCrawlerBase ==
  /\ status = "running" /\ Len(stack) > 0 /\ Top.pc = "while"
  /\ ~Has(Top.link)
  /\ visitedUrls' = AddVisited(Top.link)
  /\ fetches' = Append(fetches, [link |-> Top.link, baseUrl |-> given.crawler,
                                 request |-> RequestOf[Top.link],
                                 outcome |-> "pending", batch |-> <<>>])
  /\ timers' = Append(timers, Len(fetches) + 1)
  /\ stack' = SetTop([Top EXCEPT !.baseUrl = given.crawler, !.pc = "await",
                                  !.race = Len(fetches) + 1])
  /\ UNCHANGED <<web, status, seed, abandoned, faults, result, returns, given, call>>

\* while (!visitedUrls.has(link)) { visitedUrls.add(link); baseUrl = link;
\*   await Promise.race([this.#extractUrls(link, baseUrl), timeout(3000)])
EnterLoop ==
  /\ status = "running" /\ Len(stack) > 0 /\ Top.pc = "while"
  /\ ~Has(Top.link)
  /\ visitedUrls' = AddVisited(Top.link)
  /\ fetches' = Append(fetches, [link |-> Top.link, baseUrl |-> Top.link,
                                 request |-> RequestOf[Top.link],
                                 outcome |-> "pending", batch |-> <<>>])
  /\ timers' = Append(timers, Len(fetches) + 1)
  /\ stack' = SetTop([Top EXCEPT !.baseUrl = Top.link, !.pc = "await",
                                  !.race = Len(fetches) + 1])
  /\ UNCHANGED <<web, status, seed, abandoned, faults, result, returns, given, call>>

\* An invocation that returns the link it was called with only.
OwnLinkOnly == <<Top.link>>

\* Array.from(visitedUrls): a new array of the URLs the Set holds now.
ArrayFromVisited == visitedUrls

\* The while test fails: return Array.from(visitedUrls).
Return ==
  /\ status = "running" /\ Len(stack) > 0 /\ Top.pc = "while"
  /\ Has(Top.link)
  /\ stack' = SubSeq(stack, 1, Len(stack) - 1)
  /\ returns' = Append(returns, [link |-> Top.link, value |-> ArrayFromVisited])
  /\ IF Len(stack) = 1
       THEN status' = "returned" /\ result' = ArrayFromVisited
       ELSE UNCHANGED <<status, result>>
  /\ UNCHANGED <<web, seed, visitedUrls, fetches, timers, abandoned, faults, given,
                 call>>

\* A crawler without the try/catch: the error unwinds every invocation and
\* the top-level promise rejects.
Uncaught == <<<<>>, "rejected">>

\* catch (error) { console.error(...) }: the invocation goes back to the
\* while test.  The pair is <<stack, status>> after the catch.
Caught == <<SetTop([Top EXCEPT !.pc = "while"]), status>>

\* The race of the innermost invocation is lost or rejected.
Fail(outcome) ==
  /\ fetches' = [fetches EXCEPT ![Top.race].outcome = outcome]
  /\ stack' = Caught[1]
  /\ status' = Caught[2]

\* #extractUrls resolves first: extractHtml answered with the anchors of the
\* page and #handleRelativeLinks returned; or #handleRelativeLinks threw.
Settle(r) ==
  IF r.ok
    THEN /\ fetches' = [fetches EXCEPT ![Top.race].outcome = "ok",
                                       ![Top.race].batch = r.val]
         /\ stack' = SetTop([Top EXCEPT !.pc = "for", !.extractedURLs = r.val, !.i = 1])
         /\ UNCHANGED status
  ELSE Fail("threw")

ExtractionResolves ==
  /\ Suspended
  /\ fetches[Top.race].request \in DOMAIN web
  /\ Settle(HandleRelativeLinks(web[fetches[Top.race].request], Top.baseUrl))
  /\ UNCHANGED <<web, seed, visitedUrls, timers, abandoned, faults, result, returns, given, call>>

\* #extractUrls rejects first: the URL is not one fetch can request, the
\* server answers with an HTTP error, or the network fails.
ExtractionRejects ==
  /\ Suspended
  /\ \/ fetches[Top.race].request \notin DOMAIN web /\ UNCHANGED faults
     \/ fetches[Top.race].request \in DOMAIN web /\ faults < MaxFaults /\ faults' = faults + 1
  /\ Fail("rejected")
  /\ UNCHANGED <<web, seed, visitedUrls, timers, abandoned, result, returns, given, call>>

\* A timer whose callback does not reject the race.
TimeoutWithoutReject ==
  /\ status = "running" /\ Len(stack) > 0 /\ Top.pc = "await"
  /\ Len(timers) > 0 /\ Head(timers) = Top.race
  /\ timers' = Tail(timers)
  /\ UNCHANGED <<web, status, seed, visitedUrls, stack, fetches, abandoned, faults,
                 result, returns, given, call>>

\* One time budget for the whole traversal: whichever timer fires rejects the
\* race that is being awaited.
AnyTimerRejects ==
  /\ Suspended
  /\ Len(timers) > 0
  /\ timers' = Tail(timers)
  /\ abandoned' = abandoned \cup {Top.race}
  /\ Fail("timeout")
  /\ UNCHANGED <<web, seed, visitedUrls, faults, result, returns, given, call>>

\* The oldest timer fires (all timers run 3000 ms, so they fire in the order
\* they were armed).  If it belongs to the race being awaited, the race
\* rejects and the extraction is left in flight; otherwise its race is
\* already settled and nothing happens.
TimeoutFires ==
  /\ Suspended
  /\ Len(timers) > 0 /\ Head(timers) = Top.race
  /\ timers' = Tail(timers)
  /\ abandoned' = abandoned \cup {Top.race}
  /\ Fail("timeout")
  /\ UNCHANGED <<web, seed, visitedUrls, faults, result, returns, given, call>>

StaleTimerFires ==
  /\ Quiescent
  /\ Len(timers) > 0
  /\ ~(Suspended /\ Head(timers) = Top.race)
  /\ timers' = Tail(timers)
  /\ UNCHANGED <<web, status, seed, visitedUrls, stack, fetches, abandoned, faults,
                 result, returns, given, call>>

\* A late rejection that nothing handles and that ends the program.
LateResultUnhandled(id) ==
  /\ Quiescent
  /\ id \in abandoned
  /\ abandoned' = abandoned \ {id}
  /\ status' = "rejected"
  /\ stack' = <<>>
  /\ UNCHANGED <<web, seed, visitedUrls, fetches, timers, faults, result, returns, given, call>>

\* An extraction that lost its race settles later: its promise has no other
\* consumer than the settled race.
LateResult(id) ==
  /\ Quiescent
  /\ id \in abandoned
  /\ abandoned' = abandoned \ {id}
  /\ UNCHANGED <<web, status, seed, visitedUrls, stack, fetches, timers, faults,
                 result, returns, given, call>>

\* The invocations for the links from position p of a batch, first link last.
RECURSIVE ChildFrames(_, _, _)
ChildFrames(links, p, baseUrl) ==
  IF p > Len(links) THEN <<>>
  ELSE ChildFrames(links, p + 1, baseUrl)
         \o <<[link |-> links[p], baseUrl |-> baseUrl, pc |-> "while",
               extractedURLs |-> <<>>, i |-> 0, race |-> 0]>>

\* A loop that starts the crawl of every link of the batch at once.
CallChildrenTogether ==
  /\ status = "running" /\ Len(stack) > 0 /\ Top.pc = "for"
  /\ Top.i <= Len(Top.extractedURLs)
  /\ stack' = SetTop([Top EXCEPT !.i = Len(Top.extractedURLs) + 1])
                 \o ChildFrames(Top.extractedURLs, Top.i, Top.baseUrl)
  /\ UNCHANGED <<web, status, seed, visitedUrls, fetches, timers, abandoned, faults,
                 result, returns, given, call>>

\* A loop that steps over every second link.
CallEverySecondChild ==
  /\ status = "running" /\ Len(stack) > 0 /\ Top.pc = "for"
  /\ Top.i <= Len(Top.extractedURLs)
  /\ stack' = Append(SetTop([Top EXCEPT !.i = Top.i + 2]),
                     [link |-> Top.extractedURLs[Top.i], baseUrl |-> Top.baseUrl,
                      pc |-> "while", extractedURLs |-> <<>>, i |-> 0, race |-> 0])
  /\ UNCHANGED <<web, status, seed, visitedUrls, fetches, timers, abandoned, faults,
                 result, returns, given, call>>

\* for (const link of extractedURLs) { await this.crawl(link, visitedUrls, baseUrl) }
CallChild ==
  /\ status = "running" /\ Len(stack) > 0 /\ Top.pc = "for"
  /\ Top.i <= Len(Top.extractedURLs)
  /\ stack' = Append(SetTop([Top EXCEPT !.i = Top.i + 1]),
                     [link |-> Top.extractedURLs[Top.i], baseUrl |-> Top.baseUrl,
                      pc |-> "while", extractedURLs |-> <<>>, i |-> 0, race |-> 0])
  /\ UNCHANGED <<web, status, seed, visitedUrls, fetches, timers, abandoned, faults,
                 result, returns, given, call>>

\* The for-of loop is exhausted: back to the while test.
EndFor ==
  /\ status = "running" /\ Len(stack) > 0 /\ Top.pc = "for"
  /\ Top.i > Len(Top.extractedURLs)
  /\ stack' = SetTop([Top EXCEPT !.pc = "while"])
  /\ UNCHANGED <<web, status, seed, visitedUrls, fetches, timers, abandoned, faults,
                 result, returns, given, call>>

\* The steps the running code takes by itself.
Step == EnterLoop \/ Return \/ CallChild \/ EndFor

Next ==
  \/ \E s \in Seeds : Crawl(s)
  \/ EnterLoop
  \/ Return
  \/ ExtractionResolves
  \/ ExtractionRejects
  \/ TimeoutFires
  \/ StaleTimerFires
  \/ \E id \in abandoned : LateResult(id)
  \/ CallChild
  \/ EndFor

Spec == Init /\ [][Next]_vars

(***************************************************************************)
(* Liveness.  The event loop runs code that is ready to run, and an armed   *)
(* timer fires; nothing makes a fetch settle.  The site is the two-page     *)
(* part of the site above.                                                  *)
(***************************************************************************)

LivePages == {"https://x.com/", "https://x.com/about/"}

InitLive ==
  /\ web \in [LivePages -> LinkLists]
  /\ status = "idle"
  /\ seed = ""
  /\ visitedUrls = <<>>
  /\ stack = <<>>
  /\ fetches = <<>>
  /\ timers = <<>>
  /\ abandoned = {}
  /\ faults = 0
  /\ result = <<>>
  /\ returns = <<>>
  /\ given = NoArgs
  /\ call = NoCall

TimerFires == TimeoutFires \/ StaleTimerFires

SpecLive ==
  InitLive /\ [][Next]_vars /\ WF_vars(Step) /\ WF_vars(TimerFires)

(***************************************************************************)
(* Two top-level calls of crawl.  The variables above hold the call whose   *)
(* code runs; call holds the other one, which has not started, is suspended *)
(* on its race or has returned.  The event loop passes from one to the      *)
(* other only when the running one is in such a state itself.  Each call    *)
(* keeps the timers and late results of its own races.                      *)
(***************************************************************************)

TwoWebs ==
  {[u \in Pages |-> IF u = "https://x.com/" THEN <<"https://x.com/about", "/about">>
                    ELSE IF u = "https://x.com/about/" THEN <<"https://x.com/">>
                    ELSE <<>>],
   [u \in Pages |-> IF u = "https://x.com/" THEN <<"about", "/about">>
                    ELSE IF u = "https://x.com/about" THEN <<"https://x.com/about">>
                    ELSE <<>>]}

\* The state of the call whose code runs, as call holds the other one.
Running ==
  [op |-> "crawl", status |-> status, seed |-> seed, visitedUrls |-> visitedUrls,
   stack |-> stack, fetches |-> fetches, timers |-> timers,
   abandoned |-> abandoned, faults |-> faults, result |-> result,
   returns |-> returns, given |-> given]

InitTwo ==
  /\ web \in TwoWebs
  /\ status = "idle"
  /\ seed = ""
  /\ visitedUrls = <<>>
  /\ stack = <<>>
  /\ fetches = <<>>
  /\ timers = <<>>
  /\ abandoned = {}
  /\ faults = 0
  /\ result = <<>>
  /\ returns = <<>>
  /\ given = NoArgs
  /\ call = Running

\* The other call gets to run.
Switch ==
  /\ call.op = "crawl"
  /\ status = "idle" \/ Quiescent
  /\ call' = Running
  /\ status' = call.status
  /\ seed' = call.seed
  /\ visitedUrls' = call.visitedUrls
  /\ stack' = call.stack
  /\ fetches' = call.fetches
  /\ timers' = call.timers
  /\ abandoned' = call.abandoned
  /\ faults' = call.faults
  /\ result' = call.result
  /\ returns' = call.returns
  /\ given' = call.given
  /\ UNCHANGED web

\* A baseUrl passed as third argument, and the URL of another crawler.
ThirdArgs == {"https://x.com/about/"}

CrawlerBases == {"https://other.org"}

NextTwo ==
  \/ Next
  \/ Switch
  \/ \E s \in Seeds, b \in ThirdArgs, c \in CrawlerBases : CrawlWith(s, b, c)

SpecTwo == InitTwo /\ [][NextTwo]_vars

(***************************************************************************)
(* The constructor, the normalizer and the resolver called by themselves,   *)
(* once per behaviour, on inputs put together from the parts below.         *)
(***************************************************************************)

SchemeParts == {"https:", "HTTP:", "foo:", "mailto:", ""}
SlashParts == {"//", "/", ""}
HostParts == {"x.com", "Y.com", "localhost", ""}
PathParts == {"", "/", "/page", "/a/..", "/a/./b", "/a b"}
QueryParts == {"", "?", "?q"}
FragmentParts == {"", "#", "#f"}
PadParts == {"", " "}

UrlInputs ==
  {c[1] \o c[2] \o c[3] \o c[4] \o c[5] \o c[6] \o c[7] :
     c \in SchemeParts \X SlashParts \X HostParts \X PathParts \X QueryParts
             \X FragmentParts \X PadParts}
  \cup {"not a url", "https://x.com", "https://x.com/", "https://y.com/page"}

LinkInputs ==
  {"/about", "./team", "https://y.com/page", "/", "./", "/./x", ".//x", "//y.com/p",
   "../up", ".", "", "about", "#top", "https://x.com", "HTTP://Y.com/a/../b?q#f"}

BaseInputs == {"https://x.com/", "https://x.com", "https://x.com/about/"}

FixedWeb == [u \in Pages |-> <<>>]

InitPure ==
  /\ web = FixedWeb
  /\ status = "idle"
  /\ seed = ""
  /\ visitedUrls = <<>>
  /\ stack = <<>>
  /\ fetches = <<>>
  /\ timers = <<>>
  /\ abandoned = {}
  /\ faults = 0
  /\ result = <<>>
  /\ returns = <<>>
  /\ given = NoArgs
  /\ call = NoCall

\* new LinkCrawler(b)
Construct(b) ==
  /\ call = NoCall
  /\ call' = [op |-> "new", arg |-> b, new |-> NewLinkCrawler(b)]
  /\ UNCHANGED crawlVars

\* #normalizeLinks(u), #normalizeLinks of what it returned, and
\* #normalizeLinks of u followed by "/".
CallNormalize(u) ==
  /\ call = NoCall
  /\ LET out == NormalizeLinks(u)
     IN  call' = [op |-> "normalize", arg |-> u, out |-> out,
                  again |-> IF out.ok THEN NormalizeLinks(out.val) ELSE Thrown,
                  slash |-> NormalizeLinks(u \o "/")]
  /\ UNCHANGED crawlVars

\* One link through the resolver.
CallResolve(l, b) ==
  /\ call = NoCall
  /\ call' = [op |-> "resolve", arg |-> l, baseUrl |-> b, out |-> ResolveLink(l, b)]
  /\ UNCHANGED crawlVars

NextPure ==
  \/ \E l \in LinkInputs, b \in BaseInputs : CallResolve(l, b)
  \/ \E b \in UrlInputs : Construct(b)
  \/ \E u \in UrlInputs : CallNormalize(u)

SpecPure == InitPure /\ [][NextPure]_vars

(***************************************************************************)
(* Properties of the traversal.                                             *)
(***************************************************************************)

Races == DOMAIN fetches

Ok(k) == fetches[k].outcome = "ok"

\* The race was rejected: by the extraction, by #handleRelativeLinks or by
\* the timer.
Failed(k) == fetches[k].outcome \in {"rejected", "threw", "timeout"}

FetchCount(u) == Cardinality({k \in Races : fetches[k].link = u})

Visited == Range(visitedUrls)

VisitIndex(u) == CHOOSE i \in 1..Len(visitedUrls) : visitedUrls[i] = u

\* #extractUrls(u, u) when nothing fails: the LinkBatch of the page at u, as
\* a set; a URL without a page, or whose page cannot be resolved, has none.
LinksOf(u) ==
  LET key == ServerKey(u)
      r == HandleRelativeLinks(web[key], u)
  IN  IF key \notin DOMAIN web THEN {}
      ELSE IF r.ok THEN Range(r.val) ELSE {}

\* The least set that contains R and the LinkBatch of each of its URLs.
RECURSIVE Closure(_)
Closure(R) ==
  LET n == R \cup UNION {LinksOf(u) : u \in R}
  IN  IF n = R THEN R ELSE Closure(n)

\* Every link of every extracted batch has been visited.
AllDiscoveredVisited == \A k \in Races : Ok(k) => Range(fetches[k].batch) \subseteq Visited

\* A race k whose link has a later sibling in the batch of race j, and
\* that sibling was marked visited after the link of k.
SiblingCrawledAfter(j, k) ==
  /\ Ok(j)
  /\ \E p \in 1..(Len(fetches[j].batch) - 1) :
       /\ fetches[j].batch[p] = fetches[k].link
       /\ fetches[j].batch[p + 1] \in Visited
       /\ VisitIndex(fetches[j].batch[p + 1]) > VisitIndex(fetches[k].link)

\* C1: in one traversal the extraction of a URL is started at most once,
\* however many pages link to it, self-links and cycles included.
C1_FetchedAtMostOnce ==
  \A j, k \in Races : fetches[j].link = fetches[k].link => j = k

\* A finished traversal in which a URL is linked from two different pages,
\* one page links to itself and two pages link to each other.
C1_Witness ==
  /\ status = "returned"
  /\ \E j, k \in Races :
       /\ j # k /\ Ok(j) /\ Ok(k)
       /\ Range(fetches[j].batch) \cap Range(fetches[k].batch) # {}
       /\ fetches[j].link \in Range(fetches[k].batch)
       /\ fetches[k].link \in Range(fetches[j].batch)
  /\ \E k \in Races : fetches[k].link \in Range(fetches[k].batch)

\* C2: a crawl that was started eventually returns, and the list it returns
\* contains the seed.
C2_TerminatesWithSeed ==
  /\ (status = "running") ~> (status = "returned")
  /\ [](status = "returned" => seed \in Range(result))

\* A traversal that returned after following a cycle back to the seed.
C2_Witness ==
  /\ status = "returned"
  /\ seed \in Range(result)
  /\ \E k \in Races : k > 1 /\ Ok(k) /\ seed \in Range(fetches[k].batch)

\* C3: when no extraction failed or timed out, the returned URLs are exactly
\* the URLs reachable from the seed through the LinkBatches of the site.
C3_ReturnsReachableSet ==
  (status = "returned" /\ \A k \in Races : Ok(k))
    => /\ Range(result) = Closure({seed})
       /\ Len(result) = Cardinality(Range(result))

\* A fault-free traversal over at least three URLs with a link back to the seed.
C3_Witness ==
  /\ status = "returned"
  /\ \A k \in Races : Ok(k)
  /\ Len(result) >= 3
  /\ \E k \in Races : k > 1 /\ seed \in Range(fetches[k].batch)

C6_NoRetry ==
  \A k \in Races :
    Failed(k) => fetches[k].link \in Visited /\ FetchCount(fetches[k].link) = 1

\* A finished traversal where a page fetched after the failure links to the
\* failed link.
C6_Witness ==
  /\ status = "returned"
  /\ \E j, k \in Races :
       /\ Failed(k) /\ j > k /\ Ok(j)
       /\ fetches[k].link \in Range(fetches[j].batch)

\* C8: every URL of the visited set ends with "/".
C8_VisitedNormalized ==
  \A n \in 1..Len(visitedUrls) : EndsWithSlash(visitedUrls[n])

\* The page race k requested exists and has no anchor element.
EmptyPage(k) ==
  fetches[k].request \in DOMAIN web /\ web[fetches[k].request] = <<>>

SettledLate == {k \in Races : fetches[k].outcome = "timeout" /\ k \notin abandoned}

\* The batches of the races the extraction won.
WonBatches == UNION {Range(fetches[k].batch) : k \in {j \in Races : Ok(j)}}

\* C14: the result of an extraction that arrives after its timer won the
\* race is discarded.  The step that delivers it changes neither the visited
\* set nor the invocations nor the outcome of any race; the race keeps an
\* empty batch, every visited URL is the seed or a link of a batch that won
\* its race, every nested invocation crawls a link of the batch of the
\* invocation below it, and crawl does not reject.
C14_LateResultDiscarded ==
  /\ [][(abandoned' # abandoned /\ abandoned' \subseteq abandoned)
          => UNCHANGED <<visitedUrls, stack, fetches, status, result>>]_vars
  /\ [](/\ status # "rejected"
        /\ \A k \in SettledLate : fetches[k].batch = <<>>
        /\ Visited \subseteq {seed} \cup WonBatches
        /\ \A n \in 2..Len(stack) :
             /\ Ok(stack[n - 1].race)
             /\ stack[n].link \in Range(fetches[stack[n - 1].race].batch))

\* A late result has arrived while the traversal awaits the race of another
\* page, below the first invocation.
C14_Witness ==
  /\ Suspended /\ Len(stack) >= 2
  /\ \E k \in SettledLate : k # Top.race

Pending(k) == fetches[k].outcome = "pending"

\* C15: every race has a timer of its own, armed in the step that starts the
\* extraction and armed as long as the race is pending; a race is timed out
\* only by the firing of its own timer, however long other pages or the
\* children took; and a timer that fires when its race is already settled
\* changes nothing of the traversal.
C15_TimerPerFetch ==
  /\ [][Len(fetches') # Len(fetches)
          => /\ fetches' = Append(fetches, fetches'[Len(fetches')])
             /\ timers' = Append(timers, Len(fetches'))]_vars
  /\ [][\A k \in Races :
          (Pending(k) /\ fetches'[k].outcome = "timeout")
            => timers # <<>> /\ Head(timers) = k /\ timers' = Tail(timers)]_vars
  /\ [][(timers # <<>> /\ timers' = Tail(timers) /\ ~Pending(Head(timers)))
          => UNCHANGED <<visitedUrls, stack, fetches, status, result, abandoned>>]_vars
  /\ [](/\ \A k \in Races : Pending(k) => k \in Range(timers)
        /\ Cardinality(Range(timers)) = Len(timers)
        /\ Range(timers) \subseteq Races)

\* The timer of a page has fired after its extraction won the race, while a
\* child of the page is being fetched with its own timer armed.
C15_Witness ==
  /\ Suspended /\ Len(stack) >= 2
  /\ Ok(stack[1].race) /\ stack[1].race \notin Range(timers)
  /\ Pending(Top.race) /\ Top.race \in Range(timers)

\* The anchors of the page of race k hold a link the resolver concatenates
\* with baseUrl.
HasRelativeLink(k) ==
  /\ fetches[k].request \in DOMAIN web
  /\ \E n \in 1..Len(web[fetches[k].request]) :
       \/ StartsWith(web[fetches[k].request][n], "/")
       \/ StartsWith(web[fetches[k].request][n], "./")

\* C16: when the resolver has concatenated a root-relative or a
\* document-relative link with baseUrl, that baseUrl ends with "/".
C16_BaseEndsWithSlash ==
  \A k \in Races : (Ok(k) /\ HasRelativeLink(k)) => EndsWithSlash(fetches[k].baseUrl)

\* C17 as stated: every invocation of the traversal, nested or top-level,
\* has returned the final visited set.
C17_AllReturnFinalSet ==
  status = "returned"
    => \A n \in 1..Len(returns) : Range(returns[n].value) = Range(result)

\* C17 amended: every invocation returns the contents of the shared visited
\* set at the moment it returns, its own link among them: a list that the
\* visited set, and the final list, extend; the top-level invocation
\* returns last, and its list is the final visited set.
C17_ReturnsSnapshot ==
  /\ \A n \in 1..Len(returns) :
       /\ returns[n].link \in Range(returns[n].value)
       /\ Len(returns[n].value) <= Len(visitedUrls)
       /\ returns[n].value = SubSeq(visitedUrls, 1, Len(returns[n].value))
  /\ status = "returned"
       => /\ result = visitedUrls
          /\ returns[Len(returns)] = [link |-> seed, value |-> result]
          /\ \A k \in Races : fetches[k].link \in Range(result)

\* A finished traversal in which a nested invocation returned fewer URLs
\* than the top-level one.
C17_Witness ==
  /\ status = "returned"
  /\ \E n \in 1..Len(returns) : Len(returns[n].value) < Len(result)

\* C18: the traversal is depth-first and siblings do not overlap.  Every
\* invocation but the innermost waits in its for-of loop for the crawl of
\* the link just before its cursor, and that crawl is the invocation right
\* above it; the cursor of a loop moves only when its invocation is the
\* innermost one (all below the previous link has returned), by one link,
\* entering the crawl of that link; a link is marked visited and fetched
\* only by the innermost invocation; at most one extraction is awaited.
C18_DepthFirst ==
  /\ [](/\ \A n \in 1..(Len(stack) - 1) :
             /\ stack[n].pc = "for"
             /\ stack[n].i >= 2 /\ stack[n].i <= Len(stack[n].extractedURLs) + 1
             /\ stack[n + 1].link = stack[n].extractedURLs[stack[n].i - 1]
        /\ Cardinality({k \in Races : Pending(k)}) <= 1
        /\ \A k \in Races : Pending(k) => Suspended /\ Top.race = k)
  /\ [][\A n \in 1..Len(stack) :
          (n <= Len(stack') /\ stack[n].pc = "for" /\ stack'[n].pc = "for"
             /\ stack'[n].i # stack[n].i)
            => /\ n = Len(stack)
               /\ stack'[n].i = stack[n].i + 1
               /\ Len(stack') = n + 1
               /\ stack'[n + 1].link = stack[n].extractedURLs[stack[n].i]]_vars
  /\ [][visitedUrls' # visitedUrls
          => /\ Len(stack) > 0
             /\ visitedUrls' = Append(visitedUrls, Top.link)
             /\ fetches' = Append(fetches, fetches'[Len(fetches')])
             /\ fetches'[Len(fetches')].link = Top.link]_vars

\* The crawl of the first link of the seed's batch is two invocations deep
\* while the next link of that batch is still unvisited.
C18_Witness ==
  /\ Len(stack) >= 3
  /\ stack[1].i <= Len(stack[1].extractedURLs)
  /\ stack[1].extractedURLs[stack[1].i] \notin Visited
  /\ Suspended

\* What the resolver makes of each href of the site against each link the
\* traversal can come to crawl, tabulated once.
ResolvedAs == [l \in Range(DocOrder) |-> [u \in KnownUrls |-> ResolveLink(l, u)]]

\* The links of the page of race k, each resolved against the base of k.
ResolvedLinks(k) ==
  {ResolvedAs[l][fetches[k].baseUrl].val : l \in Range(web[fetches[k].request])}

\* C19: the LinkBatch of a page holds exactly its distinct resolved links,
\* in strictly ascending string order, and the for-of loop crawls them in
\* that order: its cursor starts at the first link and moves one link at a
\* time, the links before the cursor are visited once their crawl has
\* returned, and the invocation above crawls the link right before it.
C19_SortedDistinctBatch ==
  /\ [](\A k \in Races :
          Ok(k) => /\ Range(fetches[k].batch) = ResolvedLinks(k)
                   /\ \A p \in 1..(Len(fetches[k].batch) - 1) :
                        StrLess(fetches[k].batch[p], fetches[k].batch[p + 1]))
  /\ [](\A n \in 1..Len(stack) :
          stack[n].pc = "for"
            => /\ stack[n].extractedURLs = fetches[stack[n].race].batch
               /\ \A p \in 1..(stack[n].i - 1) :
                    (p < stack[n].i - 1 \/ n = Len(stack))
                      => stack[n].extractedURLs[p] \in Visited
               /\ n < Len(stack)
                    => stack[n + 1].link = stack[n].extractedURLs[stack[n].i - 1])
  /\ [][\A n \in 1..Len(stack') :
          stack'[n].pc = "for"
            => IF n <= Len(stack) /\ stack[n].pc = "for"
                 THEN stack'[n].i \in {stack[n].i, stack[n].i + 1}
                 ELSE stack'[n].i = 1]_vars

\* A finished traversal of a page whose anchors repeat and are not in
\* string order.
C19_Witness ==
  /\ status = "returned"
  /\ \E k \in Races :
       /\ Ok(k)
       /\ Len(fetches[k].batch) >= 2
       /\ Len(fetches[k].batch) < Len(web[fetches[k].request])
       /\ StrLess(web[fetches[k].request][2], web[fetches[k].request][1])

\* The normalizer applied to each href of the site, and to each
\* concatenation of a link the traversal can crawl with a root-relative
\* href, tabulated once.
NormalizedHref == [a \in Range(DocOrder) |-> NormalizeLinks(a)]

Concatenations ==
  {u \o SliceFrom(l, 1) : u \in KnownUrls, l \in {h \in Range(DocOrder) : StartsWith(h, "/")}}

NormalizedConcat == [c \in Concatenations |-> NormalizeLinks(c)]

\* On the page of race k the root-relative href l and the absolute href a
\* lead to the same location (the normalizer maps both to one URL), but the
\* concatenation for l and the normalized a are different strings.
SameLocation(k, l, a) ==
  /\ StartsWith(l, "/")
  /\ ~StartsWith(a, "/") /\ ~StartsWith(a, "./")
  /\ NormalizedHref[a].ok
  /\ NormalizedConcat[fetches[k].baseUrl \o SliceFrom(l, 1)] = NormalizedHref[a]
  /\ fetches[k].baseUrl \o SliceFrom(l, 1) # NormalizedHref[a].val

\* C21: when a page holds a relative and an absolute link to the same
\* location, both strings (the concatenation as it is, and the normalized
\* absolute link) enter the LinkBatch, and a traversal that returns has
\* visited both and has started an extraction for each: the location is
\* fetched twice.
C21_DoubleVisit ==
  \A k \in Races :
    Ok(k) =>
      \A l, a \in Range(web[fetches[k].request]) :
        SameLocation(k, l, a)
          => /\ fetches[k].baseUrl \o SliceFrom(l, 1) \in Range(fetches[k].batch)
             /\ NormalizedHref[a].val \in Range(fetches[k].batch)
             /\ status = "returned"
                  => /\ fetches[k].baseUrl \o SliceFrom(l, 1) \in Range(result)
                     /\ NormalizedHref[a].val \in Range(result)
                     /\ FetchCount(fetches[k].baseUrl \o SliceFrom(l, 1)) = 1
                     /\ FetchCount(NormalizedHref[a].val) = 1

\* A finished traversal that fetched "https://x.com/about", found through
\* "/about", and "https://x.com/about/", found through the absolute link, and
\* got a page for both.
C21_Witness ==
  /\ status = "returned"
  /\ \E k \in Races :
       /\ Ok(k)
       /\ SameLocation(k, "/about", "https://x.com/about")
       /\ {"/about", "https://x.com/about"} \subseteq Range(web[fetches[k].request])
  /\ \E i, j \in Races :
       /\ Ok(i) /\ fetches[i].link = "https://x.com/about"
       /\ Ok(j) /\ fetches[j].link = "https://x.com/about/"

\* An href that takes the absolute branch of the resolver and that new URL
\* rejects.
Unparsable(h) == ~StartsWith(h, "/") /\ ~StartsWith(h, "./") /\ ~NormalizedHref[h].ok

\* The page of race k exists and holds an unparsable href.
HasUnparsable(k) ==
  /\ fetches[k].request \in DOMAIN web
  /\ \E h \in Range(web[fetches[k].request]) : Unparsable(h)

\* C22: a page with an unparsable href contributes no links at all.  Its
\* race never resolves; when the extraction settles first the race ends as
\* thrown by #handleRelativeLinks; the batch stays empty, the invocation
\* never enters its for-of loop and no invocation is started below it; the
\* error is caught there, crawl does not reject, and a traversal that
\* returns has crawled every link of every batch.
C22_BadHrefDropsPage ==
  /\ [](/\ status # "rejected"
        /\ status = "returned" => AllDiscoveredVisited
        /\ \A k \in Races :
             HasUnparsable(k)
               => /\ ~Ok(k)
                  /\ fetches[k].batch = <<>>
                  /\ \A n \in 1..Len(stack) :
                       stack[n].race = k => (stack[n].pc # "for" /\ n = Len(stack)))
  /\ [][\A k \in Races :
          (HasUnparsable(k) /\ Pending(k) /\ fetches'[k].outcome = "threw")
            => /\ Len(stack') = Len(stack)
               /\ stack'[Len(stack)] = [Top EXCEPT !.pc = "while"]
               /\ UNCHANGED <<status, visitedUrls>>]_vars

\* A finished traversal of two pages: the second has the hrefs "about" and
\* "/about", its race ended as thrown, and the URL "/about" leads to from
\* it was never visited.
C22_Witness ==
  /\ status = "returned" /\ Len(result) >= 2
  /\ \E k \in Races :
       /\ k > 1 /\ HasUnparsable(k) /\ fetches[k].outcome = "threw"
       /\ "/about" \in Range(web[fetches[k].request])
       /\ fetches[k].baseUrl \o "about" \notin Visited

(***************************************************************************)
(* Properties of the constructor, the resolver and the normalizer.          *)
(***************************************************************************)

\* C7: constructing with a baseUrl that is not a valid absolute URL throws,
\* and a stored base ends with "/".
C7_RejectsNonAbsolute ==
  call.op = "new"
    => /\ ~ParseURL(call.arg).ok => call.new.threw
       /\ ~call.new.threw => EndsWithSlash(call.new.baseUrl)

\* C9: a link starting with "/" gives base + link without its first
\* character, a link starting with "./" gives base + link without its first
\* two characters, any other link gives normalize(link); with the three
\* examples of the specification.
C9_ResolverCases ==
  call.op = "resolve"
    => LET l == call.arg
           b == call.baseUrl
           rootRelative == Len(l) >= 1 /\ Ch(l, 1) = "/"
           docRelative == Len(l) >= 2 /\ Ch(l, 1) = "." /\ Ch(l, 2) = "/"
       IN  /\ rootRelative => call.out = [ok |-> TRUE, val |-> b \o Tail(l)]
           /\ docRelative => call.out = [ok |-> TRUE, val |-> b \o Tail(Tail(l))]
           /\ (~rootRelative /\ ~docRelative) => call.out = NormalizeLinks(l)
           /\ (l = "/about" /\ b = "https://x.com/")
                => call.out = [ok |-> TRUE, val |-> "https://x.com/about"]
           /\ (l = "./team" /\ b = "https://x.com/")
                => call.out = [ok |-> TRUE, val |-> "https://x.com/team"]
           /\ (l = "https://y.com/page" /\ b = "https://x.com/")
                => call.out = [ok |-> TRUE, val |-> "https://y.com/page/"]

\* The document-relative example has been resolved.
C9_Witness ==
  /\ call.op = "resolve"
  /\ call.arg = "./team" /\ call.baseUrl = "https://x.com/"
  /\ call.out.val = "https://x.com/team"

\* C10: normalize(normalize(u)) = normalize(u) for every URL the normalizer
\* accepts, query strings and fragments included.
C10_NormalizeIdempotent ==
  (call.op = "normalize" /\ call.out.ok) => call.again = call.out

\* A URL with a query and a fragment that normalization changed.
C10_Witness ==
  /\ call.op = "normalize"
  /\ call.arg = "HTTP://Y.com/a/..?q#f"
  /\ call.out = [ok |-> TRUE, val |-> "http://y.com/?q#f/"]
  /\ call.again = call.out

\* C11: normalize(u) ends with "/" for every URL u the normalizer accepts, and
\* a URL written without and with its trailing "/" normalizes to one string.
C11_TrailingSlash ==
  (call.op = "normalize" /\ call.out.ok)
    => /\ EndsWithSlash(call.out.val)
       /\ (LastChar(call.arg) \notin {"/", " "}) => call.slash = call.out

\* The example of the specification: "HTTP://x.com" and "HTTP://x.com/".
C11_Witness ==
  /\ call.op = "normalize"
  /\ call.arg = "HTTP://x.com"
  /\ call.out = [ok |-> TRUE, val |-> "http://x.com/"]
  /\ call.slash = call.out

(***************************************************************************)
(* Properties of two calls of crawl.                                        *)
(***************************************************************************)

\* The links whose extraction the call t started itself.
OwnLinks(t) == {t.fetches[k].link : k \in DOMAIN t.fetches}

\* The visited set of call t holds the links t entered itself and no other,
\* and t, once started, has entered its seed.
OwnsVisitedSet(t) ==
  /\ Range(t.visitedUrls) = OwnLinks(t)
  /\ (t.status = "running" /\ t.stack[1].pc # "while") => t.seed \in OwnLinks(t)
  /\ t.status = "returned"
       => /\ t.seed \in OwnLinks(t)
          /\ Range(t.result) = OwnLinks(t)

\* C13: each of two top-level calls of crawl has a visited set of its own:
\* a URL one of them visited is not taken as visited by the other, and the
\* list a call returns holds the URLs of its own traversal only.
C13_FreshVisitedSet == OwnsVisitedSet(Running) /\ OwnsVisitedSet(call)

\* One call has returned while the other, started with the same seed, is
\* suspended in the middle of its own traversal of the same pages.
C13_Witness ==
  /\ status = "returned" /\ Len(result) >= 2
  /\ call.status = "running" /\ call.seed = seed
  /\ Len(call.fetches) >= 1
  /\ Len(call.visitedUrls) < Len(result)

\* In call t every extraction got the link being fetched as its base, every
\* invocation past its rebinding has baseUrl = link, and every batch is the
\* page's links resolved against the link of the page.
ResolvesAgainstOwnPage(t) ==
  /\ \A k \in DOMAIN t.fetches :
       /\ t.fetches[k].baseUrl = t.fetches[k].link
       /\ t.fetches[k].outcome = "ok"
            => Range(t.fetches[k].batch)
                 = {ResolvedAs[l][t.fetches[k].link].val :
                      l \in Range(web[t.fetches[k].request])}
  /\ \A n \in 1..Len(t.stack) :
       t.stack[n].pc \in {"await", "for"} => t.stack[n].baseUrl = t.stack[n].link

AllOk(t) == \A k \in DOMAIN t.fetches : t.fetches[k].outcome = "ok"

MaxShowings == 2
MaxTables == 2

WeekDays ==
  <<"Monday", "Tuesday", "Wednesday", "Thursday", "Friday", "Saturday", "Sunday">>

\* The days of a calendar page and of the bar page, in the order the
\* scrapers list them.
WeekendDays == <<"Friday", "Saturday", "Sunday">>

\* parseInt(s) for a string that starts with a digit: the number its leading
\* digits spell, given the number n spelt by the digits before position i.
RECURSIVE ParseDigits(_, _, _)
ParseDigits(s, i, n) ==
  IF i > Len(s) \/ ~Contains(Digits, Ch(s, i)) THEN n
  ELSE ParseDigits(s, i + 1, 10 * n + IndexFrom(Digits, Ch(s, i), 1) - 1)

ParseInt(s) == ParseDigits(s, 1, 0)

\* s.split(':')[0]: s up to its first colon.
BeforeColon(s) == SubSeq(s, 1, IndexFrom(s, ":", 1) - 1)

\* String.prototype.padStart(n, c) for a one-character c.
RECURSIVE PadStart(_, _, _)
PadStart(s, n, c) == IF Len(s) >= n THEN s ELSE PadStart(c \o s, n, c)

\* WeekDays.indexOf(day) + 1: 0 for a day that is not in the list.
DayNumber(day) ==
  IF \E i \in DOMAIN WeekDays : WeekDays[i] = day
  THEN CHOOSE i \in DOMAIN WeekDays : WeekDays[i] = day
  ELSE 0

\* dayNumber.toString().padStart(2, '0'), dayNumber being at most 7.
FormattedDayNumber(day) == PadStart(Ch(Digits, DayNumber(day) + 1), 2, "0")

\* The days a person is available: those of the person's calendar with info 'ok'.
AvailabilityArray(personInfo) ==
  LET ok == SelectSeq(personInfo, LAMBDA data : data.info = "ok")
  IN  [i \in DOMAIN ok |-> ok[i].day]

\* #compileCalendarAvailability: the days of the first person on which
\* every person is available.
CompileCalendarAvailability(displayCalendarInfo) ==
  SelectSeq(AvailabilityArray(displayCalendarInfo[1]),
            LAMBDA day : \A p \in DOMAIN displayCalendarInfo :
                           day \in Range(AvailabilityArray(displayCalendarInfo[p])))

\* Array.prototype.flat() of an array of arrays.
RECURSIVE Flat(_)
Flat(arrays) == IF arrays = <<>> THEN <<>> ELSE Head(arrays) \o Flat(Tail(arrays))

\* The showings of the day that have seats left.
FilteredArray(displayCinemaInfo, day) ==
  SelectSeq(Flat(displayCinemaInfo),
            LAMBDA item : item.status = 1 /\ item.day = FormattedDayNumber(day))

\* The hour and the name of each showing.
MoviesText(movies) ==
  [i \in DOMAIN movies |-> [time |-> BeforeColon(movies[i].time), movie |-> movies[i].name]]

\* The keys of availableMovies: the common days when there are several,
\* otherwise commonDays[0], which is undefined for an empty list.
MovieDays(commonDays) ==
  IF Len(commonDays) > 1 THEN Range(commonDays)
  ELSE IF commonDays = <<>> THEN {"undefined"}
  ELSE {commonDays[1]}

\* #buyMovieTickets
BuyMovieTickets(commonDays, displayCinemaInfo) ==
  [day \in MovieDays(commonDays) |-> MoviesText(FilteredArray(displayCinemaInfo, day))]

\* The days that are keys of both objects, with the tables of the bar.
AvailableDaysForDinner(buyMovieTickets, displayBarInfo) ==
  [day \in DOMAIN buyMovieTickets \cap DOMAIN displayBarInfo |-> displayBarInfo[day]]

DinnerTimes(dinners) == [i \in DOMAIN dinners |-> ParseInt(dinners[i].start)]

MovieTimes(movies) == [i \in DOMAIN movies |-> ParseInt(movies[i].time)]

\* The dinner times that are two hours or more after some movie starts.
MatchingDinnerTimes(dinnerTimes, movieTimes) ==
  SelectSeq(dinnerTimes,
            LAMBDA time : \E k \in DOMAIN movieTimes : time >= movieTimes[k] + 2)

\* The reduce of another orchestrator: only movies that start exactly two
\* hours before the dinner.
ExactlyTwoHoursBefore(movieTimes, dinnerTime) ==
  SelectSeq([k \in DOMAIN movieTimes |-> k],
            LAMBDA index : movieTimes[index] + 2 = dinnerTime)

\* The indices, in order, of the movies that start two hours or more before
\* the dinner.
MatchingMovieTimesIndices(movieTimes, dinnerTime) ==
  SelectSeq([k \in DOMAIN movieTimes |-> k],
            LAMBDA index : movieTimes[index] + 2 <= dinnerTime)

\* The suggestions of one dinner time: one for each matching movie.
SuggestionsAt(movies, indices, movieTimes, dinnerTime) ==
  [n \in DOMAIN indices |->
     [movie |-> movies[indices[n]].movie,
      movieTime |-> movieTimes[indices[n]],
      dinnerTime |-> dinnerTime]]

\* matchingDinnerTimes.flatMap(...), from the n-th dinner time on.
RECURSIVE FlatMapSuggestions(_, _, _, _)
FlatMapSuggestions(matching, movies, movieTimes, n) ==
  IF n > Len(matching) THEN <<>>
  ELSE SuggestionsAt(movies, MatchingMovieTimesIndices(movieTimes, matching[n]),
                     movieTimes, matching[n])
         \o FlatMapSuggestions(matching, movies, movieTimes, n + 1)

\* The matching dinner times of a day.
MatchingOn(buyMovieTickets, available, day) ==
  MatchingDinnerTimes(DinnerTimes(available[day]), MovieTimes(buyMovieTickets[day]))

\* The body of the second loop: a day gets a key when it has a matching time.
MatchingTimesForDinner(buyMovieTickets, available) ==
  [day \in {d \in DOMAIN available : Len(MatchingOn(buyMovieTickets, available, d)) > 0} |->
     FlatMapSuggestions(MatchingOn(buyMovieTickets, available, day),
                        buyMovieTickets[day], MovieTimes(buyMovieTickets[day]), 1)]

\* #makeDinnerReservation
MakeDinnerReservation(buyMovieTickets, displayBarInfo) ==
  MatchingTimesForDinner(buyMovieTickets,
                         AvailableDaysForDinner(buyMovieTickets, displayBarInfo))

\* What the three scrapers hand to the orchestrator.  The calendars of two
\* friends, the first free all weekend, the second busy on Sunday:
Infos == {"ok", "--"}

CalendarOf(infos) == [i \in DOMAIN WeekendDays |-> [day |-> WeekendDays[i], info |-> infos[i]]]

CalendarInputs ==
  {<<CalendarOf(<<"ok", "ok", "ok">>), CalendarOf(<<friday, saturday, "--">>)>> :
     friday \in Infos, saturday \in Infos}

\* The showings: one movie on Friday or Saturday at 16:00 or 18:30, and on
\* Friday at 16:00 also a sold-out showing of it and a showing of another.
Showings ==
  {item \in [day : {"05", "06"}, time : {"16:00", "18:30"}, status : {0, 1},
             name : {"Alien", "Brazil"}] :
     /\ (item.status = 0 \/ item.name = "Brazil")
          => (item.day = "05" /\ item.time = "16:00")
     /\ ~(item.status = 0 /\ item.name = "Brazil")}

SeqsUpTo(S, n) == UNION {[1..m -> S] : m \in 0..n}

\* One answer of the cinema per showing, after an answer with no showing.
CinemaInputs ==
  {<<<<>>>> \o [i \in DOMAIN f |-> <<f[i]>>] : f \in SeqsUpTo(Showings, MaxShowings)}

\* The tables: each day of the weekend has a list of tables that start at
\* 18 or at 20.
Dinners == [start : {"18", "20"}, end : {"22"}]

TablesListed(bar) == Len(bar["Friday"]) + Len(bar["Saturday"]) + Len(bar["Sunday"])

BarInputs ==
  {bar \in [Range(WeekendDays) -> SeqsUpTo(Dinners, MaxTables)] :
     TablesListed(bar) <= MaxTables}

\* Application.run
Run(displayCalendarInfo, displayCinemaInfo, displayBarInfo) ==
  /\ call = NoCall
  /\ call' = [op |-> "run",
              displayCalendarInfo |-> displayCalendarInfo,
              displayCinemaInfo |-> displayCinemaInfo,
              displayBarInfo |-> displayBarInfo,
              commonDays |-> CompileCalendarAvailability(displayCalendarInfo),
              out |-> MakeDinnerReservation(
                        BuyMovieTickets(CompileCalendarAvailability(displayCalendarInfo),
                                        displayCinemaInfo),
                        displayBarInfo)]
  /\ UNCHANGED crawlVars

\* The application runs once.
NextRun ==
  /\ call = NoCall
  /\ \E calendars \in CalendarInputs, cinema \in CinemaInputs, bar \in BarInputs :
       Run(calendars, cinema, bar)

SpecRun == InitPure /\ [][NextRun]_vars

(***************************************************************************)
(* Properties of the suggestions.                                           *)
(***************************************************************************)

\* The weekend days by the number the cinema gives them, and the whole hour
\* of the times the cinema and the bar use.
CinemaDayOf == [day \in Range(WeekendDays) |->
                  IF day = "Friday" THEN "05" ELSE IF day = "Saturday" THEN "06" ELSE "07"]

WholeHour == [t \in {"16:00", "18:30", "18", "20"} |->
                IF t = "16:00" THEN 16 ELSE IF t = "20" THEN 20 ELSE 18]

\* The showings of the day with seats left, by their position in flat, the
\* answers of the cinema put end to end.
ShownOn(flat, day) ==
  {i \in DOMAIN flat : flat[i].status = 1 /\ flat[i].day = CinemaDayOf[day]}

\* The (showing, table) pairs of the day that a suggestion s stands for:
\* the table starts two hours or more after the showing.
PairsOf(flat, dinners, day, s) ==
  {pair \in ShownOn(flat, day) \X DOMAIN dinners :
     /\ flat[pair[1]].name = s.movie
     /\ WholeHour[flat[pair[1]].time] = s.movieTime
     /\ WholeHour[dinners[pair[2]].start] = s.dinnerTime
     /\ s.dinnerTime >= s.movieTime + 2}

SuggestionsOf(c, day) == IF day \in DOMAIN c.out THEN c.out[day] ELSE <<>>

Occurrences(seq, s) == Cardinality({n \in DOMAIN seq : seq[n] = s})

Candidates == [movie : {"Alien", "Brazil"}, movieTime : {16, 18}, dinnerTime : {18, 20}]

\* The suggestions of call c are those of the pairs of its showings flat
\* and its tables.
SuggestsThePairs(c, flat) ==
  /\ DOMAIN c.out \subseteq Range(c.commonDays)
  /\ \A day \in DOMAIN c.out : \A n \in DOMAIN c.out[day] :
       /\ c.out[day][n].dinnerTime >= c.out[day][n].movieTime + 2
       /\ c.out[day][n] \in Candidates
       /\ PairsOf(flat, c.displayBarInfo[day], day, c.out[day][n]) # {}
  /\ \A day \in Range(c.commonDays) : \A s \in Candidates :
       Occurrences(SuggestionsOf(c, day), s)
         = Cardinality(PairsOf(flat, c.displayBarInfo[day], day, s))

\* C23: every suggestion of a day has dinnerTime >= movieTime + 2 and the
\* day is one all friends are free on, with a showing of the movie that has
\* seats left at that hour and a table listed at that hour; and on every
\* such day each (showing, table) pair with the table starting two hours or
\* more after the showing is suggested exactly once: a suggestion occurs as
\* many times as there are pairs it stands for.
C23_SuggestionsMatchPairs ==
  call.op = "run" => SuggestsThePairs(call, Flat(call.displayCinemaInfo))

\* Two of the weekend days are common to the friends; Friday has a sold-out
\* showing and a showing with seats left, and two tables at the same hour:
\* the same suggestion is made twice, once for each table.
C23_Witness ==
  /\ call.op = "run"
  /\ Len(call.commonDays) = 2
  /\ "Friday" \in DOMAIN call.out
  /\ \E s \in Candidates : Occurrences(call.out["Friday"], s) = 2
  /\ \E i \in DOMAIN Flat(call.displayCinemaInfo) :
       /\ Flat(call.displayCinemaInfo)[i].status = 0
       /\ Flat(call.displayCinemaInfo)[i].day = "05"

====
